---------------------------- MODULE Spec2Model ----------------------------
(***************************************************************************)
(* A model of wifi_optimizer.py: the BSSID matcher (_fit_target), the      *)
(* nearest-AP selector (find), the scan filter (_find_bssids), the startup *)
(* validation (_find_device, _AccessPointSelector.__init__) and the        *)
(* control loop of _main with its nested _update_bssid.                    *)
(*                                                                         *)
(* Conventions.                                                            *)
(*  - A Python str is a sequence of one-character strings; a bytes value   *)
(*    is a sequence of integers 0..255.                                    *)
(*  - Python's None, where the other values are str or bytes, is the empty *)
(*    sequence: no address string or byte string of the model is empty.    *)
(*    Where the other values are opaque strings (a uuid, an interface      *)
(*    name, an ssid) None is NoneStr.                                      *)
(*  - A row index (int | None) is 1-based; NoIndex (0) is None.            *)
(*  - Coordinates are integers and distances are compared squared:         *)
(*    np.sqrt is strictly increasing on the small integers used here.      *)
(***************************************************************************)
EXTENDS Integers, Sequences, FiniteSets

VARIABLES
    pc,          \* "init" | "load" | "steady" | "halted" | "crashed"; "find" | "fit"
    nm,          \* what NetworkManager reports at startup: primary profile, all profiles
    wireless,    \* profile.wireless of the managed connection: ssid, mode, bssid
    sources,     \* selector._sources, the station table
    targets,     \* selector._targets, the access-point table
    station,     \* selector._x, selector._y
    env,         \* DRY_RUN, ONE_SHOT
    last_bssid,  \* _main's last_bssid
    tick,        \* what the last loop iteration saw, selected and called
    call         \* the last call of selector.find on its own: argument and results

vars == <<pc, nm, wireless, sources, targets, station, env, last_bssid, tick, call>>

----------------------------------------------------------------------------
(* Bounds *)

\* Longest list of access points one scan reports.
MaxScan == 2

----------------------------------------------------------------------------
(* Values *)

None == <<>>

\* None where the other values are opaque strings (uuid, interface name, ssid).
NoneStr == "None"

NoIndex == 0

Abs(n) == IF n < 0 THEN -n ELSE n

Indices(s) == [i \in 1..Len(s) |-> i]

Range(s) == {s[i] : i \in DOMAIN s}

\* Sequences over S without repetition, of length at most n.
InjSeqs(S, n) ==
    UNION {{s \in [1..k -> S] : \A i, j \in 1..k : i # j => s[i] # s[j]} : k \in 0..n}

----------------------------------------------------------------------------
(* str <-> bytes *)

HexDigits == <<"0", "1", "2", "3", "4", "5", "6", "7",
               "8", "9", "A", "B", "C", "D", "E", "F">>

LowerDigits == <<"0", "1", "2", "3", "4", "5", "6", "7",
                 "8", "9", "a", "b", "c", "d", "e", "f">>

\* The value of each hexadecimal digit, upper or lower case.
HexValues ==
    [c \in Range(HexDigits) \cup Range(LowerDigits) |->
        IF \E v \in 1..16 : HexDigits[v] = c
        THEN (CHOOSE v \in 1..16 : HexDigits[v] = c) - 1
        ELSE (CHOOSE v \in 1..16 : LowerDigits[v] = c) - 1]

HexVal(c) == HexValues[c]

\* str.replace(':', '')
RemoveColons(s) == SelectSeq(s, LAMBDA c : c # ":")

\* binascii.unhexlify: two digits per byte, high digit first.
Unhexlify(s) ==
    [i \in 1..(Len(s) \div 2) |-> 16 * HexVal(s[2 * i - 1]) + HexVal(s[2 * i])]

\* bytes of an address string, as _fit_target and _update_bssid compute them.
MacBytes(s) == Unhexlify(RemoveColons(s))

\* AccessPoint.hw_address: NetworkManager prints the six octets in upper-case
\* hexadecimal, colon-separated.
HwAddress(b) ==
    LET Pair(k) == <<HexDigits[(b[k] \div 16) + 1], HexDigits[(b[k] % 16) + 1]>>
    IN  Pair(1) \o <<":">> \o Pair(2) \o <<":">> \o Pair(3) \o <<":">>
        \o Pair(4) \o <<":">> \o Pair(5) \o <<":">> \o Pair(6)

\* An access-point id written bare and in lower case, as the table may hold it.
BareId(b) ==
    LET Pair(k) == <<LowerDigits[(b[k] \div 16) + 1], LowerDigits[(b[k] % 16) + 1]>>
    IN  Pair(1) \o Pair(2) \o Pair(3) \o Pair(4) \o Pair(5) \o Pair(6)

----------------------------------------------------------------------------
(* _AccessPointSelector._fit_target *)

\* pattern[1:-1] == mac[1:-1]
MiddleEqual(pattern, mac) ==
    SubSeq(pattern, 2, Len(pattern) - 1) = SubSeq(mac, 2, Len(mac) - 1)

\* abs(pattern[0] - mac[0]) in [0, 8]
FirstOctetFits(pattern, mac) == Abs(pattern[1] - mac[1]) \in {0, 8}

\* The last-octet test as the design text words it: (r.id[5] - o[5]) mod 256.
LastOctetFitsModular(pattern, mac) ==
    (mac[Len(mac)] - pattern[Len(pattern)]) % 256 < 16

\* pattern[-1] - mac[-1] >= 0 and pattern[-1] - mac[-1] < 16
LastOctetFits(pattern, mac) ==
    /\ pattern[Len(pattern)] - mac[Len(mac)] >= 0
    /\ pattern[Len(pattern)] - mac[Len(mac)] < 16

\* The three tests of the comprehension `filtered`.
Fits(pattern, mac) ==
    /\ MiddleEqual(pattern, mac)
    /\ FirstOctetFits(pattern, mac)
    /\ LastOctetFits(pattern, mac)

\* The list `macs`.
Macs(tgts) == [k \in 1..Len(tgts) |-> MacBytes(tgts[k].id)]

FilteredOf(macs, pattern) ==
    SelectSeq(Indices(macs), LAMBDA k : Fits(pattern, macs[k]))

\* The list `filtered`: the rows of the table that fit bssid, in table order.
Filtered(tgts, bssid) == FilteredOf(Macs(tgts), MacBytes(bssid))

\* The last fitting row returned instead of the first.
LastOrNone(filtered) ==
    IF filtered = <<>> THEN NoIndex ELSE filtered[Len(filtered)]

\* `return None` if not filtered, else `return filtered[0]`.
FirstOrNone(filtered) == IF filtered = <<>> THEN NoIndex ELSE filtered[1]

FitTarget(tgts, bssid) == FirstOrNone(Filtered(tgts, bssid))

----------------------------------------------------------------------------
(* _AccessPointSelector.find *)

\* np.argmin taken at the last minimum instead of the first.
ArgMinLast(s) ==
    CHOOSE i \in 1..Len(s) :
        /\ \A j \in 1..Len(s) : s[i] <= s[j]
        /\ \A j \in (i + 1)..Len(s) : s[j] > s[i]

\* np.argmin: the position of the first minimum.
ArgMin(s) ==
    CHOOSE i \in 1..Len(s) :
        /\ \A j \in 1..Len(s) : s[i] <= s[j]
        /\ \A j \in 1..(i - 1) : s[j] > s[i]

\* target_indices: one _fit_target result per scanned address.
TargetIndices(tgts, bssids) ==
    [i \in 1..Len(bssids) |-> FitTarget(tgts, bssids[i])]

\* The frame with the matched record's id in place of the observed address.
RowsOfRecordId(tgts, bssids, ti, kept) ==
    [j \in 1..Len(kept) |->
        [x |-> tgts[ti[kept[j]]].x,
         y |-> tgts[ti[kept[j]]].y,
         bssid |-> tgts[ti[kept[j]]].id]]

\* The frame `targets` of find: one row per matched address, in scan order,
\* with the matched record's position and the observed address.
RowsOf(tgts, bssids, ti, kept) ==
    [j \in 1..Len(kept) |->
        [x |-> tgts[ti[kept[j]]].x,
         y |-> tgts[ti[kept[j]]].y,
         bssid |-> bssids[kept[j]]]]

KeptOf(ti) == SelectSeq(Indices(ti), LAMBDA i : ti[i] # NoIndex)

RowsFrom(tgts, bssids, ti) == RowsOf(tgts, bssids, ti, KeptOf(ti))

MatchedRows(tgts, bssids) == RowsFrom(tgts, bssids, TargetIndices(tgts, bssids))

\* series_l2_dist, squared.
Dist2(rows, x, y) ==
    [j \in 1..Len(rows) |->
        Abs(rows[j].x - x) * Abs(rows[j].x - x)
        + Abs(rows[j].y - y) * Abs(rows[j].y - y)]

\* `return None` if the series is empty, else the bssid of the nearest row.
Nearest(rows, x, y) ==
    IF rows = <<>> THEN None ELSE rows[ArgMin(Dist2(rows, x, y))].bssid

Find(tgts, x, y, bssids) == Nearest(MatchedRows(tgts, bssids), x, y)

----------------------------------------------------------------------------
(* _find_bssids *)

\* aps after the ssid filter.
SsidAps(scan, ssid) == SelectSeq(scan, LAMBDA ap : ap.ssid = ssid)

\* max(ap.max_bitrate for ap in aps); aps is not empty.
MaxBitrate(aps) ==
    CHOOSE m \in {aps[i].max_bitrate : i \in DOMAIN aps} :
        \A i \in DOMAIN aps : aps[i].max_bitrate <= m

\* Every access point of the SSID, whatever its bitrate.
AtAnyBitrate(aps, max_bitrate) == aps

\* The access points whose max_bitrate equals max_bitrate.
AtBitrate(aps, max_bitrate) ==
    SelectSeq(aps, LAMBDA ap : ap.max_bitrate = max_bitrate)

Addresses(aps) == [i \in 1..Len(aps) |-> aps[i].hw_address]

\* The returned list: the addresses of the aps at the largest bitrate.
FindBssids(aps) == Addresses(AtBitrate(aps, MaxBitrate(aps)))

----------------------------------------------------------------------------
(* _find_device *)

NoWireless == [mode |-> NoneStr, ssid |-> NoneStr, bssid |-> None]

\* Negated, the test that sends _find_device to _halt.
BondedMaster(profile) ==
    /\ profile.uuid # NoneStr
    /\ profile.interface_name = "master"
    /\ profile.connection_type = "bond"

\* wifi_indices
WifiIndices(profiles, primary_connection_uuid) ==
    SelectSeq(Indices(profiles),
              LAMBDA i : /\ profiles[i].interface_name # NoneStr
                         /\ profiles[i].connection_type = "802-11-wireless"
                         /\ profiles[i].slave_type = "bond"
                         /\ profiles[i].master = primary_connection_uuid
                         /\ profiles[i].wireless # NoWireless
                         /\ profiles[i].wireless.mode = "infrastructure"
                         /\ profiles[i].wireless.ssid # NoneStr)

----------------------------------------------------------------------------
(* _AccessPointSelector.__init__ *)

\* _get_system_uuid(): what dmidecode prints on this station.
SystemUuid == "uuid-1"

\* self._sources[index_source]
StationRows(src) == SelectSeq(src, LAMBDA r : r.id = SystemUuid)

\* A station test that lets every table through.
StationKnownAlways(src) == TRUE

\* index_source.any()
StationKnown(src) == StationRows(src) # <<>>

\* Series.item() returns the value of a one-element series and raises
\* ValueError for any other size.
ItemDefined(rows) == Len(rows) = 1

----------------------------------------------------------------------------
(* _main: _update_bssid and the loop's tests *)

\* The two calls made whatever dry_run says.
ProfileCallsAlways(dry_run) == <<"update_profile", "activate_connection">>

\* connection.update_profile and nm.activate_connection, unless dry_run.
ProfileCalls(dry_run) ==
    IF dry_run THEN <<>> ELSE <<"update_profile", "activate_connection">>

\* _update_bssid(bssid) on a profile whose wireless.bssid is current:
\* the new wireless.bssid and the calls made.
SetBssid(bssid_bytes, current, dry_run) ==
    IF current = bssid_bytes
    THEN [bssid |-> current, calls |-> <<>>]
    ELSE [bssid |-> bssid_bytes, calls |-> ProfileCalls(dry_run)]

\* bssid_bytes, and None for None.
BssidBytes(bssid) == IF bssid # None THEN MacBytes(bssid) ELSE None

UpdateBssid(bssid, current, dry_run) == SetBssid(BssidBytes(bssid), current, dry_run)

\* The loop's test with the selection compared to last_bssid, as the design
\* text words the one-shot skip.
VerifyBranchOnChange(one_shot, bssid, last) ==
    \/ ~one_shot
    \/ bssid = None
    \/ last = None
    \/ bssid # last

\* The loop's test with one_shot ignored.
VerifyBranchAlways(one_shot, bssid, last) == TRUE

\* not one_shot or bssid is None or last_bssid is None
VerifyBranch(one_shot, bssid, last) ==
    \/ ~one_shot
    \/ bssid = None
    \/ last = None

\* A rollback that leaves last_bssid as it was.
LastAfterVerifyKeep(bssid, last, active) == IF active THEN bssid ELSE last

\* last_bssid after the active-connection test.
LastAfterVerify(bssid, last, active) == IF active THEN bssid ELSE None

\* A verification that leaves the override in place when it fails.
VerifyNoRevert(bssid, first, last, dry_run, active) ==
    [bssid |-> first.bssid,
     last |-> LastAfterVerify(bssid, last, active),
     calls |-> first.calls \o <<"active_connections">>,
     active |-> IF active THEN "yes" ELSE "no"]

\* `Revert on failure`: the active connections are read; the selection is
\* committed, or the override is cleared again.
Verify(bssid, first, last, dry_run, active) ==
    IF active
    THEN [bssid |-> first.bssid,
          last |-> LastAfterVerify(bssid, last, active),
          calls |-> first.calls \o <<"active_connections">>,
          active |-> "yes"]
    ELSE [bssid |-> UpdateBssid(None, first.bssid, dry_run).bssid,
          last |-> LastAfterVerify(bssid, last, active),
          calls |-> first.calls \o <<"active_connections">>
                    \o UpdateBssid(None, first.bssid, dry_run).calls,
          active |-> "no"]

\* last_bssid reset whenever the selection is None.
AfterUpdateResetLast(bssid, first, last, flags, active) ==
    IF VerifyBranch(flags.one_shot, bssid, last) /\ bssid # None
    THEN Verify(bssid, first, last, flags.dry_run, active)
    ELSE [bssid |-> first.bssid,
          last |-> IF bssid = None THEN None ELSE last,
          calls |-> first.calls,
          active |-> "unread"]

\* The verification run only when _update_bssid(bssid) made its calls.
AfterUpdateIfApplied(bssid, first, last, flags, active) ==
    IF VerifyBranch(flags.one_shot, bssid, last) /\ bssid # None /\ first.calls # <<>>
    THEN Verify(bssid, first, last, flags.dry_run, active)
    ELSE [bssid |-> first.bssid, last |-> last, calls |-> first.calls,
          active |-> "unread"]

\* The loop's body after _update_bssid(bssid) has returned `first`.
AfterUpdate(bssid, first, last, flags, active) ==
    IF VerifyBranch(flags.one_shot, bssid, last) /\ bssid # None
    THEN Verify(bssid, first, last, flags.dry_run, active)
    ELSE [bssid |-> first.bssid, last |-> last, calls |-> first.calls,
          active |-> "unread"]

\* The loop's body from _update_bssid(bssid) on: the new wireless.bssid and
\* last_bssid, and the calls made.
Iteration(bssid, current, last, flags, active) ==
    AfterUpdate(bssid, UpdateBssid(bssid, current, flags.dry_run), last, flags, active)

----------------------------------------------------------------------------
(* The inputs the model draws from: tables, NetworkManager's profiles, scans *)

Base == <<170, 187, 204, 221, 238>>                \* AA:BB:CC:DD:EE

Mac(first, last) == <<first>> \o SubSeq(Base, 2, 5) \o <<last>>

\* TGT_FILE: the table of the design text's example, one record at (2,2).
TableExample == <<[id |-> HwAddress(Mac(170, 16)), x |-> 2, y |-> 2]>>

\* TGT_FILE: three access points, two of them as far from (0,0) as each
\* other; the third id is written bare and in lower case.
TableThree ==
    <<[id |-> HwAddress(Mac(170, 16)), x |-> 3, y |-> 4],
      [id |-> HwAddress(Mac(170, 64)), x |-> 1, y |-> 1],
      [id |-> BareId(Mac(170, 112)), x |-> 4, y |-> 3]>>

\* TGT_FILE: two records that both fit A2:..:18 and AA:..:1C.
TableOverlap ==
    <<[id |-> HwAddress(Mac(170, 16)), x |-> 3, y |-> 4],
      [id |-> HwAddress(Mac(162, 24)), x |-> 1, y |-> 1]>>

TargetTables == {TableExample, TableThree, TableOverlap}

\* SRC_FILE: this station once, this station never, this station twice.
SourceTables ==
    {<<[id |-> "uuid-2", x |-> 5, y |-> 5], [id |-> "uuid-1", x |-> 0, y |-> 0]>>,
     <<[id |-> "uuid-2", x |-> 5, y |-> 5]>>,
     <<[id |-> "uuid-1", x |-> 0, y |-> 0], [id |-> "uuid-1", x |-> 4, y |-> 4]>>}

\* device.access_points: what one scan can see.
VisibleAps ==
    {[hw_address |-> HwAddress(Mac(162, 24)), max_bitrate |-> 540, ssid |-> "net"],
     [hw_address |-> HwAddress(Mac(170, 48)), max_bitrate |-> 540, ssid |-> "net"],
     [hw_address |-> HwAddress(Mac(170, 69)), max_bitrate |-> 540, ssid |-> "net"],
     [hw_address |-> HwAddress(Mac(170, 28)), max_bitrate |-> 270, ssid |-> "net"],
     [hw_address |-> HwAddress(Mac(170, 70)), max_bitrate |-> 1300, ssid |-> "guest"]}

Scans == InjSeqs(VisibleAps, MaxScan)

BondProfile ==
    [uuid |-> "bond-uuid", interface_name |-> "master", connection_type |-> "bond",
     slave_type |-> NoneStr, master |-> NoneStr, wireless |-> NoWireless]

\* A wireless slave of the bond, its profile holding the given bssid.
WifiSlave(bssid) ==
    [uuid |-> "wifi-uuid", interface_name |-> "wlan0",
     connection_type |-> "802-11-wireless", slave_type |-> "bond",
     master |-> "bond-uuid",
     wireless |-> [mode |-> "infrastructure", ssid |-> "net", bssid |-> bssid]]

EthSlave ==
    [uuid |-> "eth-uuid", interface_name |-> "eth0",
     connection_type |-> "802-3-ethernet", slave_type |-> "bond",
     master |-> "bond-uuid", wireless |-> NoWireless]

PrimaryProfiles ==
    {BondProfile,
     [BondProfile EXCEPT !.uuid = NoneStr],
     [BondProfile EXCEPT !.interface_name = "bond0"],
     [EthSlave EXCEPT !.interface_name = "master", !.slave_type = NoneStr,
                      !.master = NoneStr]}

\* settings.connections: the profiles NetworkManager knows.
ProfileLists ==
    {<<BondProfile, WifiSlave(None)>>,
     <<BondProfile, EthSlave,
       [WifiSlave(None) EXCEPT !.master = "other-uuid"],
       WifiSlave(MacBytes(HwAddress(Mac(170, 69)))),
       [WifiSlave(None) EXCEPT !.wireless.ssid = "guest"]>>,
     <<BondProfile, EthSlave>>,
     <<BondProfile,
       [WifiSlave(None) EXCEPT !.wireless.mode = "ap"],
       [WifiSlave(None) EXCEPT !.wireless.ssid = NoneStr],
       [WifiSlave(None) EXCEPT !.interface_name = NoneStr],
       [WifiSlave(None) EXCEPT !.slave_type = NoneStr],
       [WifiSlave(None) EXCEPT !.wireless = NoWireless]>>}

----------------------------------------------------------------------------
(* The state machine *)

NoNm == [primary |-> BondProfile, profiles |-> <<>>]

\* No iteration yet. Of an iteration: aps, how many access points of the
\* ssid the scan saw; bssids, the list _find_bssids returned; rows, how many
\* of the candidates matched a record; bssid, the selection; pre_bssid and
\* pre_last, wireless.bssid and last_bssid as the iteration found them;
\* pre_active, what the iteration before it found among the active
\* connections; log, the calls made on the device and on NetworkManager;
\* active, what the active-connection test found.
NoTick ==
    [aps |-> 0, bssids |-> <<>>, rows |-> 0, bssid |-> None, pre_bssid |-> None,
     pre_last |-> None, pre_active |-> "unread", log |-> <<>>, active |-> "unread"]

\* No call yet. Of a call: scan, the access points the device saw when the
\* list came from a scan; bssids, the list handed to find; target_indices and
\* bssid, what find computed.
NoCall == [scan |-> <<>>, bssids |-> <<>>, target_indices |-> <<>>, bssid |-> None]

Init ==
    /\ pc = "init"
    /\ nm = NoNm
    /\ wireless = NoWireless
    /\ sources = <<>>
    /\ targets = <<>>
    /\ station = [x |-> 0, y |-> 0]
    /\ env = [dry_run |-> FALSE, one_shot |-> FALSE]
    /\ last_bssid = None
    /\ tick = NoTick
    /\ call = NoCall

\* _find_device: the primary connection must be the bond's master and the
\* first wireless slave of the bond becomes the managed connection; else _halt.
FindDevice ==
    /\ pc = "init"
    /\ \E primary \in PrimaryProfiles, profiles \in ProfileLists :
       \E wifi_indices \in {WifiIndices(profiles, primary.uuid)} :
            /\ nm' = [primary |-> primary, profiles |-> profiles]
            /\ IF ~BondedMaster(primary) \/ wifi_indices = <<>>
               THEN /\ pc' = "halted"
                    /\ UNCHANGED wireless
               ELSE /\ pc' = "load"
                    /\ wireless' = profiles[wifi_indices[1]].wireless
    /\ UNCHANGED <<sources, targets, station, env, last_bssid, tick, call>>

\* _main from the selector's construction to the loop's first line: the
\* tables are read, the station's row resolved, the flags read.
LoadSelector ==
    /\ pc = "load"
    /\ \E src \in SourceTables, tgt \in TargetTables,
          dry_run \in BOOLEAN, one_shot \in BOOLEAN :
        /\ sources' = src
        /\ targets' = tgt
        /\ IF ~StationKnown(src)
           THEN /\ pc' = "halted"
                /\ UNCHANGED <<station, env>>
           ELSE IF ~ItemDefined(StationRows(src))
           THEN /\ pc' = "crashed"
                /\ UNCHANGED <<station, env>>
           ELSE /\ pc' = "steady"
                /\ station' = [x |-> StationRows(src)[1].x, y |-> StationRows(src)[1].y]
                /\ env' = [dry_run |-> dry_run, one_shot |-> one_shot]
    /\ last_bssid' = None
    /\ UNCHANGED <<nm, wireless, tick, call>>

\* One iteration of the loop of _main, from _find_bssids to the sleep.
\* scan is what the device sees; active is whether the managed connection is
\* among nm.active_connections when the loop looks.
Tick ==
    /\ pc = "steady"
    /\ \E scan \in Scans :
       \E aps \in {SsidAps(scan, wireless.ssid)} :
        IF aps = <<>>
        THEN \* max() of an empty sequence raises ValueError
             /\ pc' = "crashed"
             /\ tick' = [NoTick EXCEPT !.pre_bssid = wireless.bssid,
                                       !.pre_last = last_bssid,
                                       !.pre_active = tick.active,
                                       !.log = <<"request_scan">>]
             /\ UNCHANGED <<wireless, last_bssid>>
        ELSE \E bssids \in {FindBssids(aps)} :
             \E rows \in {MatchedRows(targets, bssids)} :
             \E bssid \in {Nearest(rows, station.x, station.y)} :
             \E active \in BOOLEAN :
             \E out \in {Iteration(bssid, wireless.bssid, last_bssid, env, active)} :
                 /\ pc' = "steady"
                 /\ wireless' = [wireless EXCEPT !.bssid = out.bssid]
                 /\ last_bssid' = out.last
                 /\ tick' = [aps |-> Len(aps),
                             bssids |-> bssids,
                             rows |-> Len(rows),
                             bssid |-> bssid,
                             pre_bssid |-> wireless.bssid,
                             pre_last |-> last_bssid,
                             pre_active |-> tick.active,
                             log |-> <<"request_scan">> \o out.calls,
                             active |-> out.active]
    /\ UNCHANGED <<nm, sources, targets, station, env, call>>

Next == FindDevice \/ LoadSelector \/ Tick

Spec == Init /\ [][Next]_vars

----------------------------------------------------------------------------
(* The selector on its own: find called on lists of observed addresses *)

\* The addresses a list handed to find is drawn from.
FindAddresses ==
    {HwAddress(Mac(162, 24)), HwAddress(Mac(170, 48)), HwAddress(Mac(170, 69)),
     HwAddress(Mac(170, 114)), HwAddress(Mac(170, 28))}

Stations == {[x |-> 0, y |-> 0], [x |-> 4, y |-> 4]}

FindInit ==
    /\ pc = "find"
    /\ nm = NoNm
    /\ wireless = NoWireless
    /\ sources = <<>>
    /\ targets \in TargetTables
    /\ station \in Stations
    /\ env = [dry_run |-> FALSE, one_shot |-> FALSE]
    /\ last_bssid = None
    /\ tick = NoTick
    /\ call = NoCall

\* selector.find(bssids)
FindCall ==
    /\ pc = "find"
    /\ \E bssids \in InjSeqs(FindAddresses, MaxScan) :
        call' = [scan |-> <<>>,
                 bssids |-> bssids,
                 target_indices |-> TargetIndices(targets, bssids),
                 bssid |-> Find(targets, station.x, station.y, bssids)]
    /\ UNCHANGED <<pc, nm, wireless, sources, targets, station, env, last_bssid, tick>>

SpecFind == FindInit /\ [][FindCall]_vars

----------------------------------------------------------------------------
(* The matcher on its own: one record, one observed address, octets drawn
   around the tests' edges *)

MiddleOctets ==
    {SubSeq(Base, 2, 5), <<186, 204, 221, 238>>, <<187, 204, 221, 239>>}

RecordMacs ==
    {<<first>> \o SubSeq(Base, 2, 5) \o <<last>> :
        first \in {162, 170}, last \in {0, 5, 16, 248, 255}}

ObservedMacs ==
    {<<first>> \o middle \o <<last>> :
        first \in {154, 162, 170, 171, 178, 186},
        middle \in MiddleOctets,
        last \in {0, 4, 5, 15, 16, 20, 24, 31, 32, 48, 240, 248, 250, 255}}

FitInit ==
    /\ pc = "fit"
    /\ nm = NoNm
    /\ wireless = NoWireless
    /\ sources = <<>>
    /\ targets \in {<<[id |-> HwAddress(m), x |-> 2, y |-> 2]>> : m \in RecordMacs}
    /\ station = [x |-> 0, y |-> 0]
    /\ env = [dry_run |-> FALSE, one_shot |-> FALSE]
    /\ last_bssid = None
    /\ tick = NoTick
    /\ call = NoCall

\* selector.find([bssid]), which calls _fit_target(bssid); one call per
\* behaviour, the selector keeping nothing from one call to the next.
FitCall ==
    /\ pc = "fit"
    /\ call = NoCall
    /\ \E o \in ObservedMacs :
        call' = [scan |-> <<>>,
                 bssids |-> <<HwAddress(o)>>,
                 target_indices |-> TargetIndices(targets, <<HwAddress(o)>>),
                 bssid |-> Find(targets, station.x, station.y, <<HwAddress(o)>>)]
    /\ UNCHANGED <<pc, nm, wireless, sources, targets, station, env, last_bssid, tick>>

SpecFit == FitInit /\ [][FitCall]_vars

----------------------------------------------------------------------------
(* The scan and the selector together: the loop's first two statements *)

\* The access points a scan is drawn from: two SSIDs, each at two bitrates.
ScanAps ==
    VisibleAps \cup
    {[hw_address |-> HwAddress(Mac(170, 114)), max_bitrate |-> 270, ssid |-> "net"],
     [hw_address |-> HwAddress(Mac(162, 20)), max_bitrate |-> 650, ssid |-> "guest"]}

ScanInit ==
    /\ pc = "scan"
    /\ nm = NoNm
    /\ wireless \in {[mode |-> "infrastructure", ssid |-> ssid, bssid |-> None] :
                        ssid \in {"net", "guest"}}
    /\ sources = <<>>
    /\ targets \in TargetTables
    /\ station = [x |-> 0, y |-> 0]
    /\ env = [dry_run |-> FALSE, one_shot |-> FALSE]
    /\ last_bssid = None
    /\ tick = NoTick
    /\ call = NoCall

\* bssids = _find_bssids(device, ssid); bssid = selector.find(bssids)
ScanCall ==
    /\ pc = "scan"
    /\ \E scan \in InjSeqs(ScanAps, MaxScan) :
       \E aps \in {SsidAps(scan, wireless.ssid)} :
        IF aps = <<>>
        THEN \* max() of an empty sequence raises ValueError: find is not called
             /\ pc' = "crashed"
             /\ call' = [NoCall EXCEPT !.scan = scan]
        ELSE \E bssids \in {FindBssids(aps)} :
             /\ pc' = "scan"
             /\ call' = [scan |-> scan,
                         bssids |-> bssids,
                         target_indices |-> TargetIndices(targets, bssids),
                         bssid |-> Find(targets, station.x, station.y, bssids)]
    /\ UNCHANGED <<nm, wireless, sources, targets, station, env, last_bssid, tick>>

SpecScan == ScanInit /\ [][ScanCall]_vars

----------------------------------------------------------------------------
(* What an iteration did, read off its record *)

\* The iteration has begun: the scan was requested.
Started(t) == t.log # <<>>

\* The apply step: _update_bssid(bssid) updated the profile and reactivated
\* the connection, right after the scan.
Applied(t) ==
    /\ Len(t.log) >= 3
    /\ t.log[2] = "update_profile"
    /\ t.log[3] = "activate_connection"

\* The verification step: the active connections were read.
Verified(t) == \E i \in DOMAIN t.log : t.log[i] = "active_connections"

\* The iteration ran in one-shot mode with a selection and a committed last_bssid.
OneShotCommitted(t) ==
    /\ Started(t)
    /\ env.one_shot
    /\ t.bssid # None
    /\ t.pre_last # None

----------------------------------------------------------------------------
(* C1 *)

\* C1, as claimed: in one-shot mode every iteration whose selection is an
\* address different from the committed last_bssid performs both the apply
\* (profile update and reactivation) and the verification.
C1_ChangeAppliesAndVerifies ==
    (OneShotCommitted(tick) /\ ~env.dry_run /\ tick.bssid # tick.pre_last)
        => (Applied(tick) /\ Verified(tick))

\* C1, amended: in one-shot mode an iteration whose selection is an address
\* different from the committed last_bssid sets the override to the
\* selection, calling the profile update and reactivation exactly when the
\* selection differs from the override it found (and dry-run is off); it
\* performs no verification and leaves last_bssid as it was.
C1_ChangeAppliesWithoutVerify ==
    (OneShotCommitted(tick) /\ tick.bssid # tick.pre_last)
        => /\ ~Verified(tick)
           /\ last_bssid = tick.pre_last
           /\ wireless.bssid = MacBytes(tick.bssid)
           /\ Applied(tick) <=> (~env.dry_run /\ tick.pre_bssid # MacBytes(tick.bssid))

C1_Witness ==
    /\ OneShotCommitted(tick)
    /\ tick.bssid # tick.pre_last
    /\ Applied(tick)
    /\ tick.pre_bssid = MacBytes(tick.pre_last)

----------------------------------------------------------------------------
(* C2 *)

\* C2, as claimed: in one-shot mode an iteration whose selection equals the
\* committed last_bssid performs neither the apply nor the verification,
\* whatever iterations came in between.
C2_SameSelectionSkipsAll ==
    (OneShotCommitted(tick) /\ tick.bssid = tick.pre_last)
        => (~Applied(tick) /\ ~Verified(tick))

\* C2, amended: in one-shot mode an iteration whose selection equals the
\* committed last_bssid performs no verification and leaves last_bssid as it
\* was; it performs no apply when the override still equals the selection,
\* and applies the selection again (unless dry-run) when an iteration in
\* between cleared or changed the override.
C2_SameSelectionSkipsVerify ==
    (OneShotCommitted(tick) /\ tick.bssid = tick.pre_last)
        => /\ ~Verified(tick)
           /\ last_bssid = tick.pre_last
           /\ wireless.bssid = MacBytes(tick.bssid)
           /\ Applied(tick) <=> (~env.dry_run /\ tick.pre_bssid # MacBytes(tick.bssid))

C2_Witness ==
    /\ OneShotCommitted(tick)
    /\ tick.bssid = tick.pre_last
    /\ tick.pre_bssid = None
    /\ Applied(tick)

----------------------------------------------------------------------------
(* C3 *)

\* C3: whenever an iteration verifies its selection and the managed
\* connection is not among the active connections, the override and
\* last_bssid are both none when the iteration ends.
C3_FailedVerifyRollsBack ==
    (Verified(tick) /\ tick.active = "no")
        => (wireless.bssid = None /\ last_bssid = None)

C3_Witness ==
    /\ Verified(tick)
    /\ tick.active = "no"
    /\ tick.pre_last # None
    /\ tick.pre_bssid # None

----------------------------------------------------------------------------
(* C4 *)

\* The observed address and the record of the matcher's one call.
CallObserved == MacBytes(call.bssids[1])

CallRecord == MacBytes(targets[1].id)

\* C4, as claimed: a record matches an observed address iff octets 1-4 are
\* equal, the first octets differ by 0 or 8, and (r.id[5] - o[5]) mod 256 is
\* in [0,16).
C4_MatchIffModular ==
    call # NoCall =>
        (call.target_indices[1] # NoIndex
            <=> /\ \A i \in 2..5 : CallObserved[i] = CallRecord[i]
                /\ \/ CallObserved[1] = CallRecord[1]
                   \/ CallObserved[1] = CallRecord[1] + 8
                   \/ CallObserved[1] = CallRecord[1] - 8
                /\ (CallRecord[6] - CallObserved[6]) % 256 \in 0..15)

\* C4, amended: a record matches an observed address iff octets 1-4 are
\* equal, the first octets differ by 0 or 8, and the observed last octet is
\* the record's last octet plus 0..15, without wrapping: o[5] - r.id[5] is in
\* [0,16).
C4_MatchIffOffsetAbove ==
    call # NoCall =>
        (call.target_indices[1] # NoIndex
            <=> /\ \A i \in 2..5 : CallObserved[i] = CallRecord[i]
                /\ \/ CallObserved[1] = CallRecord[1]
                   \/ CallObserved[1] = CallRecord[1] + 8
                   \/ CallObserved[1] = CallRecord[1] - 8
                /\ CallObserved[6] \in CallRecord[6]..(CallRecord[6] + 15))

C4_Witness ==
    /\ call # NoCall
    /\ call.target_indices = <<1>>
    /\ CallObserved[1] = CallRecord[1] - 8
    /\ CallObserved[6] = CallRecord[6] + 15

----------------------------------------------------------------------------
(* C5 *)

ExampleRecordId ==
    <<"A", "A", ":", "B", "B", ":", "C", "C", ":", "D", "D", ":", "E", "E", ":", "1", "0">>

ExampleObserved18 ==
    <<"A", "2", ":", "B", "B", ":", "C", "C", ":", "D", "D", ":", "E", "E", ":", "1", "8">>

ExampleObserved30 ==
    <<"A", "A", ":", "B", "B", ":", "C", "C", ":", "D", "D", ":", "E", "E", ":", "3", "0">>

\* C5: with the one-record table AA:BB:CC:DD:EE:10 the matcher returns that
\* record for A2:BB:CC:DD:EE:18 and no record for AA:BB:CC:DD:EE:30.
C5_ExampleMatches ==
    (Len(targets) = 1 /\ targets[1].id = ExampleRecordId)
        => \A i \in DOMAIN call.bssids :
            /\ call.bssids[i] = ExampleObserved18 => call.target_indices[i] = 1
            /\ call.bssids[i] = ExampleObserved30 => call.target_indices[i] = NoIndex

C5_Witness ==
    /\ Len(targets) = 1
    /\ targets[1].id = ExampleRecordId
    /\ call.bssids = <<ExampleObserved18, ExampleObserved30>>
    /\ call.bssid = ExampleObserved18

----------------------------------------------------------------------------
(* C6 *)

\* C6: every iteration that begins completes and is followed by another one
\* whatever the scan returns: the loop is in its steady state after it, and
\* when the scan shows no access point of the ssid the selection is none.
C6_EveryTickCompletes ==
    Started(tick) => /\ pc = "steady"
                     /\ tick.aps = 0 => tick.bssid = None

----------------------------------------------------------------------------
(* C7 *)

\* C7: in every iteration where no candidate address matches a record, the
\* selection is none and the override is none when the iteration ends.
C7_NoMatchClearsOverride ==
    (Started(tick) /\ tick.rows = 0)
        => (tick.bssid = None /\ wireless.bssid = None)

\* The same for the iterations that get as far as the selector: the scan
\* showed at least one access point of the ssid.
NoMatchClearsOverrideWhenScanned ==
    (Started(tick) /\ tick.aps > 0 /\ tick.rows = 0)
        => (pc = "steady" /\ tick.bssid = None /\ wireless.bssid = None)

----------------------------------------------------------------------------
(* C8 *)

\* What NetworkManager reported does not pass _find_device.
TopologyInvalid ==
    \/ nm.primary.uuid = NoneStr
    \/ nm.primary.interface_name # "master"
    \/ nm.primary.connection_type # "bond"
    \/ ~\E i \in DOMAIN nm.profiles :
          /\ nm.profiles[i].connection_type = "802-11-wireless"
          /\ nm.profiles[i].slave_type = "bond"
          /\ nm.profiles[i].master = nm.primary.uuid
          /\ nm.profiles[i].interface_name # NoneStr
          /\ nm.profiles[i].wireless # NoWireless
          /\ nm.profiles[i].wireless.mode = "infrastructure"
          /\ nm.profiles[i].wireless.ssid # NoneStr

\* How many rows of the loaded station table carry this station's id.
StationCount == Cardinality({i \in DOMAIN sources : sources[i].id = "uuid-1"})

\* C8: once startup validation has failed (the primary connection is not a
\* bonded master, the bond has no wireless slave, or the station is absent
\* from the loaded station table) the controller is halted, and in a halted
\* state no iteration has ever run: no scan, profile update, activation or
\* active-connection read. What validation read never changes afterwards,
\* so every later state is halted as well.
C8_InvalidStartupHalts ==
    /\ (pc # "init" /\ TopologyInvalid) => pc = "halted"
    /\ (sources # <<>> /\ StationCount = 0) => pc = "halted"
    /\ pc = "halted" => (tick = NoTick /\ last_bssid = None)

C8_Witness ==
    /\ pc = "halted"
    /\ ~TopologyInvalid
    /\ sources # <<>>
    /\ StationCount = 0

----------------------------------------------------------------------------
(* C9 *)

\* C9: when the station table does not hold this station's id exactly once,
\* the system ends halted: it neither crashes nor enters the loop.
C9_NotExactlyOneHalts ==
    (sources # <<>> /\ StationCount # 1) => pc = "halted"

----------------------------------------------------------------------------
(* C10 *)

\* The squared distance from the station to the record matched by the i-th
\* address of the selector's call.
CallDist2(i) ==
    (targets[call.target_indices[i]].x - station.x)
        * (targets[call.target_indices[i]].x - station.x)
    + (targets[call.target_indices[i]].y - station.y)
        * (targets[call.target_indices[i]].y - station.y)

CallMatched == {i \in DOMAIN call.bssids : call.target_indices[i] # NoIndex}

ExampleObserved45 ==
    <<"A", "A", ":", "B", "B", ":", "C", "C", ":", "D", "D", ":", "E", "E", ":", "4", "5">>

\* C10: when at least one candidate matched, find returns the observed
\* address of a matched candidate whose record is nearest to the station,
\* and of the first such candidate in list order when several are equally
\* near. With the station at (0,0) and candidates matched to records at (3,4)
\* and (1,1), it returns the one matched to (1,1).
C10_NearestFirst ==
    /\ CallMatched # {} =>
        \E i \in CallMatched :
            /\ call.bssid = call.bssids[i]
            /\ \A j \in CallMatched : CallDist2(i) <= CallDist2(j)
            /\ \A j \in CallMatched : j < i => CallDist2(j) > CallDist2(i)
    /\ (/\ station = [x |-> 0, y |-> 0]
        /\ call.bssids = <<ExampleObserved18, ExampleObserved45>>
        /\ Len(targets) = 3
        /\ <<targets[1].x, targets[1].y>> = <<3, 4>>
        /\ <<targets[2].x, targets[2].y>> = <<1, 1>>
        /\ call.target_indices = <<1, 2>>)
       => call.bssid = ExampleObserved45

\* Two candidates equally near, the later of the table first in the list.
C10_Witness ==
    /\ Cardinality(CallMatched) = 2
    /\ CallDist2(1) = CallDist2(2)
    /\ call.target_indices = <<3, 1>>
    /\ call.bssid = call.bssids[1]

----------------------------------------------------------------------------
(* C11 *)

\* The match predicate on bytes: observed o, record id r.
OctetsMatch(o, r) ==
    /\ \A j \in 2..5 : o[j] = r[j]
    /\ o[1] - r[1] \in {-8, 0, 8}
    /\ o[6] - r[6] \in 0..15

\* The rows of the table whose id matches the i-th address of the call.
CallMatches(i) ==
    {k \in DOMAIN targets :
        OctetsMatch(MacBytes(call.bssids[i]), MacBytes(targets[k].id))}

\* C11: when two or more records match one observed address, the matcher
\* returns the first of them in table order; this holds of the result of
\* every call, however many calls came before it with the same table.
C11_FirstMatchInTableOrder ==
    \A i \in DOMAIN call.bssids :
        CallMatches(i) # {} =>
            /\ call.target_indices[i] \in CallMatches(i)
            /\ \A k \in CallMatches(i) : call.target_indices[i] <= k

C11_Witness ==
    \E i \in DOMAIN call.bssids :
        /\ CallMatches(i) = {1, 2}
        /\ call.target_indices[i] = 1
        /\ Len(call.bssids) = 2

----------------------------------------------------------------------------
(* C12 *)

\* The iteration called update_profile or activate_connection.
Mutated(t) ==
    \E i \in DOMAIN t.log : t.log[i] \in {"update_profile", "activate_connection"}

\* C12: in dry-run mode no iteration calls update_profile or
\* activate_connection, neither when it applies a selection nor when it
\* rolls one back.
C12_DryRunMutatesNothing == env.dry_run => ~Mutated(tick)

\* A dry-run iteration that set the override and rolled it back.
C12_Witness ==
    /\ env.dry_run
    /\ tick.bssid # None
    /\ tick.pre_bssid # MacBytes(tick.bssid)
    /\ tick.active = "no"
    /\ wireless.bssid = None
    /\ tick.log = <<"request_scan", "active_connections">>

----------------------------------------------------------------------------
(* C13 *)

\* The access points of the scan that advertise the profile's SSID.
ScanOfSsid == {ap \in Range(call.scan) : ap.ssid = wireless.ssid}

\* The addresses of those whose bitrate no other of them exceeds.
ScanFastest ==
    {ap.hw_address : ap \in
        {a \in ScanOfSsid : \A b \in ScanOfSsid : b.max_bitrate <= a.max_bitrate}}

\* C13: the list handed to find holds exactly the visible addresses that
\* advertise the profile's SSID at the largest max_bitrate seen for that
\* SSID, each of them once.
C13_CandidatesAtMaxBitrate ==
    pc = "scan" =>
        /\ Range(call.bssids) = ScanFastest
        /\ Len(call.bssids) = Cardinality(ScanFastest)

\* A scan with two access points of the SSID at different bitrates: only the
\* faster one is handed on.
C13_Witness ==
    /\ pc = "scan"
    /\ Cardinality(ScanOfSsid) = 2
    /\ Len(call.bssids) = 1
    /\ Len(call.scan) = 2

----------------------------------------------------------------------------
(* C14 *)

\* The selection differs from the override the iteration found; a selection
\* of None differs from every override that is set.
SelectionDiffers(t) == BssidBytes(t.bssid) # t.pre_bssid

\* C14: outside dry-run mode an iteration calls update_profile and
\* activate_connection right after the scan if and only if its selection
\* differs from the override it found (an address against another address or
\* none, or none against an address).
C14_ApplyIffSelectionDiffers ==
    (Started(tick) /\ ~env.dry_run) => (Applied(tick) <=> SelectionDiffers(tick))

\* The same for the iterations that get as far as the selector: the scan
\* showed at least one access point of the ssid.
ApplyIffSelectionDiffersWhenScanned ==
    (Started(tick) /\ tick.aps > 0 /\ ~env.dry_run)
        => (Applied(tick) <=> SelectionDiffers(tick))

----------------------------------------------------------------------------
(* C15 *)

\* C15, as claimed: outside dry-run mode an iteration reads the active
\* connections only if it has just called update_profile and
\* activate_connection for its selection.
C15_VerifyOnlyAfterApply ==
    (Started(tick) /\ ~env.dry_run /\ Verified(tick)) => Applied(tick)

\* C15, amended: an iteration reads the active connections exactly when its
\* selection is an address and either one-shot mode is off or last_bssid was
\* None when the iteration began, whether or not it applied anything.
C15_VerifyWheneverSelected ==
    Started(tick) =>
        (Verified(tick) <=>
            (tick.bssid # None /\ (~env.one_shot \/ tick.pre_last = None)))

\* An iteration outside dry-run whose selection already was the override:
\* nothing was applied, yet the active connections were read.
C15_Witness ==
    /\ ~env.dry_run
    /\ tick.bssid # None
    /\ tick.pre_bssid = MacBytes(tick.bssid)
    /\ ~Applied(tick)
    /\ Verified(tick)
    /\ tick.active = "yes"

----------------------------------------------------------------------------
(* C16 *)

\* The iteration read the active connections and did not find the managed
\* connection among them.
VerifyFailed(t) == Verified(t) /\ t.active = "no"

\* C16: an iteration whose verification failed leaves the loop running with
\* the override and last_bssid both None, and the iteration after it, when its
\* selection is an address, sets the override to it (calling update_profile
\* and activate_connection unless dry-run) and verifies again, in one-shot
\* mode as in normal mode.
C16_FailedVerifyIsRetried ==
    /\ VerifyFailed(tick) =>
            (pc = "steady" /\ wireless.bssid = None /\ last_bssid = None)
    /\ (Started(tick) /\ tick.pre_active = "no" /\ tick.bssid # None) =>
            /\ tick.pre_bssid = None
            /\ tick.pre_last = None
            /\ Verified(tick)
            /\ ~env.dry_run => Applied(tick)

\* One-shot mode: the iteration before this one failed its verification, this
\* one applied its selection, verified it and committed it.
C16_Witness ==
    /\ env.one_shot
    /\ tick.pre_active = "no"
    /\ Applied(tick)
    /\ Verified(tick)
    /\ tick.active = "yes"
    /\ last_bssid = tick.bssid

----------------------------------------------------------------------------
(* C17 *)

\* C17: in one-shot mode an iteration that begins with last_bssid set reads
\* no active connections, rolls nothing back and leaves last_bssid as it
\* found it, whatever it selects; so a committed last_bssid stays for good.
C17_OneShotCommitIsFinal ==
    (env.one_shot /\ Started(tick) /\ tick.pre_last # None)
        => /\ ~Verified(tick)
           /\ tick.active = "unread"
           /\ last_bssid = tick.pre_last
           /\ pc = "steady" => wireless.bssid = BssidBytes(tick.bssid)

\* One-shot mode, last_bssid committed, the override cleared by an iteration
\* in between: another address is selected and set, without verification.
C17_Witness ==
    /\ env.one_shot
    /\ tick.pre_last # None
    /\ tick.pre_bssid = None
    /\ tick.bssid # None
    /\ tick.bssid # tick.pre_last
    /\ wireless.bssid = MacBytes(tick.bssid)
    /\ last_bssid = tick.pre_last

----------------------------------------------------------------------------
(* C18 *)

\* C18: an iteration that does not reach the verification leaves last_bssid
\* as it found it; one whose selection is None does not reach it, and ends
\* with the override None whatever last_bssid is.
C18_OnlyVerifyWritesLast ==
    /\ (Started(tick) /\ ~Verified(tick)) => last_bssid = tick.pre_last
    /\ (Started(tick) /\ tick.aps > 0 /\ tick.bssid = None) =>
            (~Verified(tick) /\ wireless.bssid = None)

\* A selection of None cleared the override while last_bssid stays set.
C18_Witness ==
    /\ Started(tick)
    /\ tick.aps > 0
    /\ tick.bssid = None
    /\ tick.pre_bssid # None
    /\ wireless.bssid = None
    /\ last_bssid # None
    /\ last_bssid = tick.pre_last

----------------------------------------------------------------------------
(* C19 *)

\* The address is in the list the selector was given and matches a record.
ObservedAndMatched(bssid, bssids) ==
    /\ \E i \in DOMAIN bssids : bssids[i] = bssid
    /\ \E k \in DOMAIN targets :
          OctetsMatch(MacBytes(bssid), MacBytes(targets[k].id))

\* C19: the selection is None or an address of the list handed to find that
\* matches a record, as observed and not as the record spells it; and after
\* every completed iteration the override is None or the bytes of such an
\* address of that iteration's list.
C19_SelectionIsObserved ==
    /\ tick.bssid # None => ObservedAndMatched(tick.bssid, tick.bssids)
    /\ (Started(tick) /\ pc = "steady") =>
            \/ wireless.bssid = None
            \/ /\ tick.bssid # None
               /\ wireless.bssid = MacBytes(tick.bssid)

\* The override holds an observed address that no record has as its id.
C19_Witness ==
    /\ tick.bssid # None
    /\ wireless.bssid = MacBytes(tick.bssid)
    /\ Len(tick.bssids) = 2
    /\ \A k \in DOMAIN targets : MacBytes(targets[k].id) # MacBytes(tick.bssid)

=============================================================================
